---- MODULE Spec2Model ----
(***************************************************************************)
(* State-machine model of backend/main.py: the route handlers of the       *)
(* recipe API and the remote store (tables and blob bucket) they call.     *)
(* One action per handler; every remote call of a handler may raise, and   *)
(* the handler's own try/except decides the response status.               *)
(***************************************************************************)
EXTENDS Integers, Sequences, FiniteSets, TLC

(* ------------------------------ bounds --------------------------------- *)
MaxRecipes == 2
MaxEdited == 1
MaxList == 2
MaxBlobs == 2
MaxOps == 3

(* --------------------------- value domains ----------------------------- *)
\* Optional values: None, or a value
None == <<>>
Some(x) == <<x>>

Null == "null"
Missing == "missing"
Users == {"u1", "u2"}
RecipeIdPool == <<"r1", "r2", "r3", "r4">>
RecipeIds == {RecipeIdPool[i] : i \in 1..MaxRecipes}
\* Request bodies of POST /api/ratings, less the pair: with and without the
\* optional comment key
RatingBodies == {[rating |-> 3, comment |-> Missing], [rating |-> 4, comment |-> "nice"]}

\* Text is a sequence of characters, so that lower() and "in" are computed.
Soup == <<"S", "o", "u", "p">>
Pie == <<"P", "i", "e">>
Sour == <<"S", "o", "u", "r">>
Hot == <<"h", "o", "t">>
NoneText == <<Null>>
Salt == [name |-> "salt", quantity |-> "1", unit |-> "tsp"]
Oil == [name |-> "oil", quantity |-> "2", unit |-> "tbsp"]
Boil == [description |-> "boil"]
Stir == [description |-> "stir"]

\* A list field of a request body: absent (dict.get gives None) or a list
NoList == [present |-> FALSE, items |-> <<>>]
List(items) == [present |-> TRUE, items |-> items]

\* Submitted lists: absent, or the first k items of one of two menus that
\* name the same ingredients in opposite orders
SaltFirst(k) == [i \in 1..k |-> IF i % 2 = 1 THEN Salt ELSE Oil]
OilFirst(k) == [i \in 1..k |-> IF i % 2 = 1 THEN Oil ELSE Salt]
Method(k) == [i \in 1..k |-> IF i % 2 = 1 THEN Boil ELSE Stir]

IngredientInputs ==
    {NoList} \cup {List(SaltFirst(k)) : k \in 0..MaxList}
             \cup {List(OilFirst(k)) : k \in 0..MaxList}
StepInputs == {NoList} \cup {List(Method(k)) : k \in 0..MaxList}

\* Request bodies of POST/PUT /api/recipes without the child lists
RecipeCores ==
    {[title |-> Soup, description |-> Hot, category |-> "soup",
      difficulty |-> "easy", prep_time |-> 1, cook_time |-> 2],
     [title |-> Pie, description |-> Sour, category |-> "dessert",
      difficulty |-> "easy", prep_time |-> 2, cook_time |-> 1]}

RecipeData(owner, core, ings, sts) ==
    [user_id |-> owner, title |-> core.title, description |-> core.description,
     category |-> core.category, difficulty |-> core.difficulty,
     prep_time |-> core.prep_time, cook_time |-> core.cook_time,
     ingredients |-> ings, steps |-> sts]

PlainRecipeInputs ==
    {RecipeData(o, c, NoList, NoList) : o \in Users \cup {Null}, c \in RecipeCores}

\* Bodies with child lists: both lists absent, or k ingredients of one menu
\* with k steps, or k ingredients of the other menu with MaxList - k steps
FullRecipeInputs ==
    LET core == CHOOSE c \in RecipeCores : c.title = Soup
    IN  {RecipeData("u1", core, NoList, NoList)}
        \cup {RecipeData("u1", core, List(SaltFirst(k)), List(Method(k))) : k \in 0..MaxList}
        \cup {RecipeData("u1", core, List(OilFirst(k)), List(Method(MaxList - k))) :
                    k \in 1..MaxList}

\* Upload limits of the two upload handlers
AvatarMaxBytes == 2 * 1024 * 1024
ImageMaxBytes == 5 * 1024 * 1024
MaxImages == 10

\* Content types as sequences of tokens, so that startswith('image/') is
\* computed; NoType is a part without a content type (None)
Png == <<"image", "/", "png">>
Plain == <<"text", "/", "plain">>
ImageOnly == <<"image">>
NoType == <<Null>>

StartsWith(t, prefix) ==
    Len(t) >= Len(prefix) /\ SubSeq(t, 1, Len(prefix)) = prefix

File(type, size) == [content_type |-> type, size |-> size]

AvatarFiles ==
    {File(t, n) : t \in {Png, Plain, ImageOnly, NoType},
                  n \in {AvatarMaxBytes, AvatarMaxBytes + 1}}

\* Batches for the recipe-image upload: n files, all valid but at most one
\* (at position bad, 0 for none) that is a non-image, oversized or untyped
Batch(n, bad, kind) ==
    [i \in 1..n |-> IF i # bad THEN File(Png, ImageMaxBytes)
                    ELSE IF kind = "type" THEN File(Plain, 1)
                    ELSE IF kind = "size" THEN File(Png, ImageMaxBytes + 1)
                    ELSE File(NoType, 1)]

ImageBatches ==
    {Batch(n, bad, kind) : n \in {0, 1, 2, MaxImages, MaxImages + 1},
                           bad \in {0, 2}, kind \in {"type", "size", "none"}}

\* An id no row carries: the store assigns fresh ids, so a client can name
\* the ids of existing rows or an id that matches nothing
UnknownId == "search"

Username(u) == IF u = "u1" THEN "ayse" ELSE "mehmet"

VARIABLES profiles, recipes, ingredients, steps, ratings, favorites, follows,
          notifications, blobs, response, ratingHist, recipeHist,
          opCount, inflight

vars == <<profiles, recipes, ingredients, steps, ratings, favorites, follows,
          notifications, blobs, response, ratingHist, recipeHist,
          opCount, inflight>>

(* ------------------------- remote store helpers ------------------------ *)
RECURSIVE SeqSum(_)
SeqSum(s) == IF s = <<>> THEN 0 ELSE Head(s) + SeqSum(Tail(s))

Range(s) == {s[i] : i \in DOMAIN s}

\* .eq(a, x).eq(b, y) on a table: the rows matching both filters
RatingRows(u, r) ==
    SelectSeq(ratings, LAMBDA row : row.user_id = u /\ row.recipe_id = r)

RecipeRows(r) == SelectSeq(recipes, LAMBDA row : row.id = r)

\* .single(): exactly one row or an exception
SingleOk(rows) == Len(rows) = 1

ErrorResponse(handler, status, req) ==
    [handler |-> handler, status |-> status, req |-> req]

\* str.lower(), on the characters and words the texts below are made of
Lower(c) ==
    CASE c = "S" -> "s" [] c = "P" -> "p" [] c = "H" -> "h" [] c = "O" -> "o"
      [] c = "Kendinizi" -> "kendinizi" [] c = "Sadece" -> "sadece"
      [] c = "Dosya" -> "dosya" [] c = "Maksimum" -> "maksimum"
      [] c = "JSON" -> "json"
      [] OTHER -> c

LowerText(t) == [i \in 1..Len(t) |-> Lower(t[i])]

\* `needle in haystack` on sequences
Contains(haystack, needle) ==
    \E i \in 0..(Len(haystack) - Len(needle)) :
        \A j \in 1..Len(needle) : haystack[i + j] = needle[j]

\* str(e) of the exceptions a try block can end with, as sequences of words
UniqueViolationText == <<"duplicate", "key", "value", "violates", "unique", "constraint">>
RemoteFaultText == <<"connection", "refused">>
NoRowText == <<"JSON", "object", "requested", "no", "rows", "returned">>
HTTPExceptionText(status, detail) == <<status>> \o detail
SelfFollowDetail == <<"Kendinizi", "takip", "edemezsiniz">>
NotImageDetail == <<"Sadece", "resim", "dosyalari", "yuklenebilir">>
TooBigDetail == <<"Dosya", "boyutu", "2MB'dan", "kucuk", "olmalidir">>
TooManyDetail == <<"Maksimum", "10", "resim", "yuklenebilir">>

DuplicateExcept_Plain(text) == 500

\* the except clause of follow_user and add_favorite:
\* 400 if "duplicate" in str(e).lower(), else 500
DuplicateExcept(text) ==
    IF Contains(LowerText(text), <<"duplicate">>) THEN 400 ELSE 500

\* the except clause of the other handlers: 500 whatever was raised
PlainExcept(text) == 500

Success(handler, req, body) ==
    [handler |-> handler, status |-> 200, req |-> req, body |-> body]

\* Python truthiness of a list taken with dict.get(): None and [] are falsy
Truthy(list) == list.present /\ list.items # <<>>

\* .order(column): the rows sorted ascending by the column; the order of rows
\* with equal keys is the store's choice
RowOrders(n) == {p \in [1..n -> 1..n] : \A i, j \in 1..n : p[i] = p[j] => i = j}

OrderBy(rows, column, desc) ==
    {[i \in 1..Len(rows) |-> rows[p[i]]] : p \in
        {q \in RowOrders(Len(rows)) :
            \A i, j \in 1..Len(rows) :
                i < j => IF desc THEN rows[q[i]][column] >= rows[q[j]][column]
                                 ELSE rows[q[i]][column] <= rows[q[j]][column]}}

IngredientRows(r) == SelectSeq(ingredients, LAMBDA row : row.recipe_id = r)
StepRows(r) == SelectSeq(steps, LAMBDA row : row.recipe_id = r)
RecipeRatings(r) == SelectSeq(ratings, LAMBDA row : row.recipe_id = r)

\* the list comprehensions that number the submitted children from 1
NewIngredients(r, list) ==
    [idx \in 1..Len(list) |->
        [recipe_id |-> r, name |-> list[idx].name, quantity |-> list[idx].quantity,
         unit |-> list[idx].unit, order_index |-> idx]]

NewSteps(r, list) ==
    [idx \in 1..Len(list) |->
        [recipe_id |-> r, step_number |-> idx, description |-> list[idx].description]]

DeleteIngredients_Keep(r) == ingredients

\* ingredients.delete().eq("recipe_id", r) and steps.delete().eq("recipe_id", r)
DeleteIngredients(r) == SelectSeq(ingredients, LAMBDA row : row.recipe_id # r)
DeleteSteps(r) == SelectSeq(steps, LAMBDA row : row.recipe_id # r)

\* profiles.select(...).eq("id", u): the profile rows of u
ProfileRows(u) == IF u \in profiles
                  THEN <<[username |-> Username(u), avatar_url |-> Null,
                          full_name |-> Null]>>
                  ELSE <<>>

Anonim == [username |-> "Anonim", avatar_url |-> Null]
AnonimFull == [username |-> "Anonim", avatar_url |-> Null, full_name |-> Null]

\* JSON null where a profile object is expected
NullProfile == [username |-> Null, avatar_url |-> Null]

AttachProfile_NoFallback(recipe, sentinel, raised) ==
    IF recipe.user_id = Null THEN sentinel
    ELSE IF raised \/ ~SingleOk(ProfileRows(recipe.user_id)) THEN NullProfile
    ELSE ProfileRows(recipe.user_id)[1]

\* The profile attached to a recipe: the sentinel unless the recipe has a
\* user_id and the single-row lookup of that profile returns a row.
\* raised: the lookup raised a remote fault (swallowed by the inner except)
AttachProfile(recipe, sentinel, raised) ==
    IF recipe.user_id = Null THEN sentinel
    ELSE IF raised \/ ~SingleOk(ProfileRows(recipe.user_id)) THEN sentinel
    ELSE ProfileRows(recipe.user_id)[1]

\* sum(r['rating'] for r in rows) / len(rows), kept as an exact fraction
Average(rows) ==
    [num |-> SeqSum([i \in 1..Len(rows) |-> rows[i].rating]), den |-> Len(rows)]

\* dict.get("comment", "")
GetComment(body) == IF body.comment = Missing THEN "" ELSE body.comment

\* The three notification helpers: the row is inserted unless the insert
\* raises (nf), and the exception never leaves the helper
create_follow_notification(follower_username, followed_user_id, follower_id, nf) ==
    IF nf THEN notifications
    ELSE Append(notifications,
            [user_id |-> followed_user_id, type |-> "follow",
             message |-> <<follower_username>>, link |-> <<"user", follower_id>>,
             read |-> FALSE])

create_rating_notification(rater_username, recipe_owner_id, recipe_id, recipe_title, rating, nf) ==
    IF nf THEN notifications
    ELSE Append(notifications,
            [user_id |-> recipe_owner_id, type |-> "rating",
             message |-> <<rater_username, recipe_title, rating>>,
             link |-> <<"recipe", recipe_id>>, read |-> FALSE])

create_favorite_notification(favoriter_username, recipe_owner_id, recipe_id, recipe_title, nf) ==
    IF nf THEN notifications
    ELSE Append(notifications,
            [user_id |-> recipe_owner_id, type |-> "favorite",
             message |-> <<favoriter_username, recipe_title>>,
             link |-> <<"recipe", recipe_id>>, read |-> FALSE])

HelperRaises_Propagates(nf) == nf

\* whether an exception of the notification insert leaves the helper: each
\* helper wraps its insert in try/except and only prints
HelperRaises(nf) == FALSE

OwnerDiffers_Always(owner, user_id) == TRUE

\* the owner test of add_rating and add_favorite:
\* recipe.data["user_id"] != data["user_id"] (None differs from every id)
OwnerDiffers(owner, user_id) == owner # user_id

\* Requests handled at the same time, by server processes that share only the
\* store: each is at one of its remote calls (pc) and holds what it has read
Procs == {1, 2}
Idle == [pc |-> "idle"]

\* History of the add_rating calls for a pair since its last delete_rating:
\* n calls, ok of them answered 200, notifs notification rows were created,
\* the latest by call notifiedAt, and last holds the body of the latest call
NoHist == [n |-> 0, ok |-> 0, notifs |-> 0, notifiedAt |-> 0, last |-> <<>>]

Init ==
    /\ profiles \in {{"u1"}, Users}
    /\ recipes = <<>>
    /\ ingredients = <<>>
    /\ steps = <<>>
    /\ ratings = <<>>
    /\ favorites = <<>>
    /\ follows = <<>>
    /\ notifications = <<>>
    /\ blobs = [avatars |-> 0, recipes |-> 0]
    /\ response = [handler |-> "none", status |-> 0]
    /\ ratingHist = [p \in Users \X (RecipeIds \cup {UnknownId}) |-> NoHist]
    /\ recipeHist = [r \in RecipeIds |-> [known |-> FALSE]]
    /\ opCount = 0
    /\ inflight = [p \in Procs |-> Idle]

(* ------------------------------ recipes -------------------------------- *)
\* POST /api/recipes. f is the remote call that raises (0: none):
\* 1 recipes.insert, 2 ingredients.insert, 3 steps.insert
create_recipe(data, f) ==
    /\ f \in 0..3
    /\ LET recipe_id == RecipeIdPool[Len(recipes) + 1]
           row == [id |-> recipe_id, user_id |-> data.user_id, title |-> data.title,
                   description |-> data.description, category |-> data.category,
                   difficulty |-> data.difficulty, prep_time |-> data.prep_time,
                   cook_time |-> data.cook_time, created_at |-> Len(recipes) + 1]
           doIng == Truthy(data.ingredients)
           doSteps == Truthy(data.steps)
           failAt == IF f = 1 THEN 1
                     ELSE IF f = 2 /\ doIng THEN 2
                     ELSE IF f = 3 /\ doSteps THEN 3
                     ELSE 0
           req == [recipe_id |-> recipe_id]
       IN  /\ recipes' = IF failAt = 1 THEN recipes ELSE Append(recipes, row)
           /\ ingredients' = IF failAt \in {1, 2} \/ ~doIng THEN ingredients
                              ELSE ingredients \o NewIngredients(recipe_id, data.ingredients.items)
           /\ steps' = IF failAt # 0 \/ ~doSteps THEN steps
                        ELSE steps \o NewSteps(recipe_id, data.steps.items)
           /\ response' = IF failAt # 0 THEN ErrorResponse("create_recipe", 500, req)
                           ELSE Success("create_recipe", req, row)
           /\ recipeHist' = IF failAt = 1 THEN recipeHist
                             ELSE [recipeHist EXCEPT ![recipe_id] =
                                    IF failAt = 0
                                    THEN [known |-> TRUE, ingredients |-> data.ingredients.items,
                                          steps |-> data.steps.items, replaced |-> FALSE]
                                    ELSE [known |-> FALSE]]
    /\ UNCHANGED <<profiles, ratings, favorites, follows, notifications, blobs,
                   ratingHist, opCount>>

    /\ UNCHANGED inflight
\* PUT /api/recipes/{recipe_id}. f is the remote call that raises (0: none):
\* 1 recipes.update, 2 ingredients.delete, 3 ingredients.insert,
\* 4 steps.delete, 5 steps.insert
update_recipe(recipe_id, data, f) ==
    /\ f \in 0..5
    /\ LET doIng == Truthy(data.ingredients)
           doSteps == Truthy(data.steps)
           failAt == IF f \in {1, 2, 4} THEN f
                     ELSE IF f = 3 /\ doIng THEN 3
                     ELSE IF f = 5 /\ doSteps THEN 5
                     ELSE 0
           reached(k) == failAt = 0 \/ failAt > k
           updated == [i \in 1..Len(recipes) |->
                        IF recipes[i].id = recipe_id
                        THEN [recipes[i] EXCEPT !.title = data.title,
                                !.description = data.description,
                                !.category = data.category,
                                !.difficulty = data.difficulty,
                                !.prep_time = data.prep_time,
                                !.cook_time = data.cook_time]
                        ELSE recipes[i]]
           ingKept == DeleteIngredients(recipe_id)
           stepsKept == DeleteSteps(recipe_id)
           req == [recipe_id |-> recipe_id]
       IN  /\ recipes' = IF reached(1) THEN updated ELSE recipes
           /\ ingredients' =
                IF ~reached(2) THEN ingredients
                ELSE IF reached(3) /\ doIng
                     THEN ingKept \o NewIngredients(recipe_id, data.ingredients.items)
                     ELSE ingKept
           /\ steps' =
                IF ~reached(4) THEN steps
                ELSE IF reached(5) /\ doSteps
                     THEN stepsKept \o NewSteps(recipe_id, data.steps.items)
                     ELSE stepsKept
           /\ response' = IF failAt # 0 THEN ErrorResponse("update_recipe", 500, req)
                           ELSE Success("update_recipe", req,
                                        SelectSeq(updated, LAMBDA row : row.id = recipe_id))
           /\ recipeHist' = IF recipe_id \notin DOMAIN recipeHist THEN recipeHist
                             ELSE [recipeHist EXCEPT ![recipe_id] =
                                    IF failAt = 0
                                    THEN [known |-> TRUE, ingredients |-> data.ingredients.items,
                                          steps |-> data.steps.items,
                                          replaced |-> @.known /\ @.ingredients # <<>>
                                                /\ @.ingredients # data.ingredients.items]
                                    ELSE IF failAt = 1 THEN @ ELSE [known |-> FALSE]]
    /\ UNCHANGED <<profiles, ratings, favorites, follows, notifications, blobs,
                   ratingHist, opCount>>

    /\ UNCHANGED inflight
\* GET /api/recipes/{recipe_id}. f is the remote call that raises to the outer
\* except (0: none): 1 recipes.single, 3 ingredients, 4 steps, 5 ratings;
\* pf: the owner's profile lookup raises; rpf: the rating rows whose rater
\* lookup raises (both swallowed)
get_recipe(recipe_id, f, pf, rpf) ==
    /\ f \in {0, 1, 3, 4, 5}
    /\ rpf \subseteq 1..Len(RecipeRatings(recipe_id))
    /\ LET found == RecipeRows(recipe_id)
           req == [recipe_id |-> recipe_id]
       IN  IF f # 0 \/ ~SingleOk(found)
           THEN response' = [handler |-> "get_recipe",
                             status |-> PlainExcept(IF f # 0 THEN RemoteFaultText
                                                    ELSE NoRowText),
                             req |-> req,
                             detail |-> IF f # 0 THEN RemoteFaultText ELSE NoRowText]
           ELSE \E ings \in OrderBy(IngredientRows(recipe_id),
                                     "order_index", FALSE),
                   sts \in OrderBy(StepRows(recipe_id),
                                    "step_number", FALSE) :
                LET rows == RecipeRatings(recipe_id)
                    ratings_with_users ==
                        [i \in 1..Len(rows) |->
                            IF i \in rpf \/ ~SingleOk(ProfileRows(rows[i].user_id))
                            THEN [user_id |-> rows[i].user_id, rating |-> rows[i].rating,
                                  comment |-> rows[i].comment,
                                  username |-> "Anonim", avatar_url |-> Null]
                            ELSE [user_id |-> rows[i].user_id, rating |-> rows[i].rating,
                                  comment |-> rows[i].comment,
                                  username |-> ProfileRows(rows[i].user_id)[1].username,
                                  avatar_url |-> ProfileRows(rows[i].user_id)[1].avatar_url]]
                    avg_rating == IF ratings_with_users # <<>>
                                  THEN Average(ratings_with_users)
                                  ELSE [num |-> 0, den |-> 1]
                IN  response' = Success("get_recipe", [recipe_id |-> recipe_id, pf |-> pf],
                        [recipe |-> found[1],
                         profile |-> AttachProfile(found[1], AnonimFull, pf),
                         ingredients |-> ings, steps |-> sts,
                         ratings |-> ratings_with_users, avg_rating |-> avg_rating])
    /\ UNCHANGED <<profiles, recipes, ingredients, steps, ratings, favorites, follows,
                   notifications, blobs, ratingHist, recipeHist, opCount>>

    /\ UNCHANGED inflight
(* ------------------------------ ratings -------------------------------- *)
RatingExists_Never(u, r) == FALSE

\* the branch test of add_rating: `if existing.data`
RatingExists(u, r) == RatingRows(u, r) # <<>>

\* ratings.update({...}).eq("user_id", u).eq("recipe_id", r)
UpdateRating(u, r, body) ==
    [i \in 1..Len(ratings) |->
        IF ratings[i].user_id = u /\ ratings[i].recipe_id = r
        THEN [ratings[i] EXCEPT !.rating = body.rating, !.comment = GetComment(body)]
        ELSE ratings[i]]

\* ratings.insert({...})
InsertRating(u, r, body) ==
    Append(ratings, [user_id |-> u, recipe_id |-> r, rating |-> body.rating,
                     comment |-> GetComment(body)])

NotifiesOnBranch_Both(updating) == TRUE

\* the lookups and the notification of add_rating sit in the else (insert)
\* branch of `if existing.data`
NotifiesOnBranch(updating) == ~updating

\* POST /api/ratings. f is the remote call that raises (0: none): 1 the
\* existence select, 2 the update or insert, 3 the recipe lookup, 4 the rater
\* lookup; nf: the notification insert raises. A response also carries the
\* recipient the request handed to the notification helper, if it called it.
add_rating(u, r, body, f, nf) ==
    /\ f \in 0..4
    /\ opCount < MaxOps
    /\ LET req == [user_id |-> u, recipe_id |-> r]
           recipe == RecipeRows(r)
           rater == ProfileRows(u)
           updating == RatingExists(u, r)
           wrote == f \notin {1, 2}
           lookedUp == wrote /\ NotifiesOnBranch(updating) /\ f # 3 /\ SingleOk(recipe)
                             /\ f # 4 /\ SingleOk(rater)
           notify == lookedUp /\ OwnerDiffers(recipe[1].user_id, u)
           status == IF f \in {1, 2} THEN 500
                     ELSE IF ~NotifiesOnBranch(updating) THEN 200
                     ELSE IF lookedUp /\ ~(notify /\ HelperRaises(nf)) THEN 200 ELSE 500
           attempt == [notify |-> IF notify THEN Some(recipe[1].user_id) ELSE None]
           h == ratingHist[<<u, r>>]
       IN  /\ ratings' = IF ~wrote THEN ratings
                          ELSE IF updating THEN UpdateRating(u, r, body)
                          ELSE InsertRating(u, r, body)
           /\ notifications' =
                IF notify
                THEN create_rating_notification(rater[1].username, recipe[1].user_id, r,
                                                recipe[1].title, body.rating, nf)
                ELSE notifications
           /\ response' = IF status = 200
                           THEN Success("add_rating", req,
                                        IF updating THEN "updated" ELSE "added") @@ attempt
                           ELSE ErrorResponse("add_rating", 500, req) @@ attempt
           /\ ratingHist' = [ratingHist EXCEPT ![<<u, r>>] =
                [n |-> h.n + 1,
                 ok |-> IF status = 200 THEN h.ok + 1 ELSE h.ok,
                 notifs |-> h.notifs + Len(notifications') - Len(notifications),
                 notifiedAt |-> IF Len(notifications') > Len(notifications)
                                THEN h.n + 1 ELSE h.notifiedAt,
                 last |-> <<body>>]]
    /\ opCount' = opCount + 1
    /\ UNCHANGED <<profiles, recipes, ingredients, steps, favorites, follows, blobs,
                   recipeHist>>

    /\ UNCHANGED inflight
\* DELETE /api/ratings/{user_id}/{recipe_id}. f: the delete raises
delete_rating(u, r, f) ==
    /\ opCount < MaxOps
    /\ ratings' = IF f THEN ratings
                   ELSE SelectSeq(ratings, LAMBDA row : ~(row.user_id = u /\ row.recipe_id = r))
    /\ response' = IF f THEN ErrorResponse("delete_rating", 500, [user_id |-> u, recipe_id |-> r])
                    ELSE Success("delete_rating", [user_id |-> u, recipe_id |-> r],
                                 RatingRows(u, r))
    /\ ratingHist' = [ratingHist EXCEPT ![<<u, r>>] = NoHist]
    /\ opCount' = opCount + 1
    /\ UNCHANGED <<profiles, recipes, ingredients, steps, favorites, follows,
                   notifications, blobs, recipeHist>>

    /\ UNCHANGED inflight
(* ------------------ add_rating, one remote call at a time -------------- *)
\* whether the other process is between its first remote call and its return
InFlight(p) == inflight[p].pc \notin {"idle", "done"}

\* the request has returned or raised: its status and the branch it took
Finished(p, status, branch) ==
    [inflight EXCEPT ![p] = [@ EXCEPT !.pc = "done", !.status = status, !.branch = branch]]

RatingResponse(p, status, branch) ==
    IF status = 200
    THEN Success("add_rating", [user_id |-> inflight[p].user_id,
                                recipe_id |-> inflight[p].recipe_id],
                 IF branch = "update" THEN "updated" ELSE "added")
    ELSE ErrorResponse("add_rating", 500, [user_id |-> inflight[p].user_id,
                                           recipe_id |-> inflight[p].recipe_id])

\* a request POST /api/ratings reaches a process
add_rating_begin(p, u, r, body) ==
    /\ inflight[p].pc = "idle"
    /\ inflight' = [q \in Procs |->
            IF q = p
            THEN [pc |-> "select", handler |-> "add_rating", user_id |-> u,
                  recipe_id |-> r, body |-> body, existing |-> FALSE,
                  owner |-> Null, title |-> NoneText, username |-> Null,
                  fresh |-> ~RatingExists(u, r),
                  overlapped |-> \E o \in Procs \ {p} : InFlight(o),
                  status |-> 0, branch |-> "none"]
            ELSE IF InFlight(q) THEN [inflight[q] EXCEPT !.overlapped = TRUE]
            ELSE inflight[q]]
    /\ UNCHANGED <<profiles, recipes, ingredients, steps, ratings, favorites, follows,
                   notifications, blobs, response, ratingHist, recipeHist, opCount>>

\* existing = ratings.select("id").eq(user_id).eq(recipe_id)
add_rating_select(p) ==
    /\ inflight[p].pc = "select"
    /\ inflight' = [inflight EXCEPT ![p] =
            [@ EXCEPT !.pc = "write",
                      !.existing = RatingExists(inflight[p].user_id,
                                                 inflight[p].recipe_id)]]
    /\ UNCHANGED <<profiles, recipes, ingredients, steps, ratings, favorites, follows,
                   notifications, blobs, response, ratingHist, recipeHist, opCount>>

\* if existing.data: ratings.update, and return; else: ratings.insert.
\* unique: the store has a uniqueness constraint on (user_id, recipe_id), as
\* it has for follows and favorites, and the insert of a second row raises
add_rating_write(p, unique) ==
    /\ inflight[p].pc = "write"
    /\ LET me == inflight[p]
       IN  IF me.existing
           THEN /\ ratings' = UpdateRating(me.user_id, me.recipe_id, me.body)
                /\ inflight' = Finished(p, 200, "update")
                /\ response' = RatingResponse(p, 200, "update")
           ELSE IF unique /\ RatingExists(me.user_id, me.recipe_id)
           THEN /\ ratings' = ratings
                /\ inflight' = Finished(p, 500, "insert")
                /\ response' = RatingResponse(p, 500, "insert")
           ELSE /\ ratings' = InsertRating(me.user_id, me.recipe_id, me.body)
                /\ inflight' = [inflight EXCEPT ![p] = [@ EXCEPT !.pc = "recipe"]]
                /\ response' = response
    /\ UNCHANGED <<profiles, recipes, ingredients, steps, favorites, follows,
                   notifications, blobs, ratingHist, recipeHist, opCount>>

\* recipe = recipes.select("user_id, title").eq("id", recipe_id).single()
add_rating_recipe(p) ==
    /\ inflight[p].pc = "recipe"
    /\ LET recipe == RecipeRows(inflight[p].recipe_id)
       IN  IF SingleOk(recipe)
           THEN /\ inflight' = [inflight EXCEPT ![p] =
                        [@ EXCEPT !.pc = "rater", !.owner = recipe[1].user_id,
                                  !.title = recipe[1].title]]
                /\ response' = response
           ELSE /\ inflight' = Finished(p, 500, "insert")
                /\ response' = RatingResponse(p, 500, "insert")
    /\ UNCHANGED <<profiles, recipes, ingredients, steps, ratings, favorites, follows,
                   notifications, blobs, ratingHist, recipeHist, opCount>>

\* rater = profiles.select("username").eq("id", user_id).single()
add_rating_rater(p) ==
    /\ inflight[p].pc = "rater"
    /\ LET rater == ProfileRows(inflight[p].user_id)
       IN  IF SingleOk(rater)
           THEN /\ inflight' = [inflight EXCEPT ![p] =
                        [@ EXCEPT !.pc = "notify", !.username = rater[1].username]]
                /\ response' = response
           ELSE /\ inflight' = Finished(p, 500, "insert")
                /\ response' = RatingResponse(p, 500, "insert")
    /\ UNCHANGED <<profiles, recipes, ingredients, steps, ratings, favorites, follows,
                   notifications, blobs, ratingHist, recipeHist, opCount>>

\* the owner test, the notification helper (nf: its insert raises) and the return
add_rating_notify(p, nf) ==
    /\ inflight[p].pc = "notify"
    /\ LET me == inflight[p]
       IN  notifications' =
                IF OwnerDiffers(me.owner, me.user_id)
                THEN create_rating_notification(me.username, me.owner, me.recipe_id,
                                                me.title, me.body.rating, nf)
                ELSE notifications
    /\ inflight' = Finished(p, 200, "insert")
    /\ response' = RatingResponse(p, 200, "insert")
    /\ UNCHANGED <<profiles, recipes, ingredients, steps, ratings, favorites, follows,
                   blobs, ratingHist, recipeHist, opCount>>

(* ---------------- update_recipe, one remote call at a time ------------- *)
UpdateResponse(p, status) ==
    IF status = 200
    THEN Success("update_recipe", [recipe_id |-> inflight[p].recipe_id],
                 RecipeRows(inflight[p].recipe_id))
    ELSE ErrorResponse("update_recipe", 500, [recipe_id |-> inflight[p].recipe_id])

\* a bulk insert of rows numbered 1..n for recipe r meets rows of r that
\* carry one of these numbers
IngredientClash(r, n) ==
    \E i \in DOMAIN ingredients :
        ingredients[i].recipe_id = r /\ ingredients[i].order_index \in 1..n

StepClash(r, n) ==
    \E i \in DOMAIN steps : steps[i].recipe_id = r /\ steps[i].step_number \in 1..n

\* a request PUT /api/recipes/{recipe_id} reaches a process
update_recipe_begin(p, recipe_id, data) ==
    /\ inflight[p].pc = "idle"
    /\ inflight' = [q \in Procs |->
            IF q = p
            THEN [pc |-> "core", handler |-> "update_recipe", recipe_id |-> recipe_id,
                  data |-> data, overlapped |-> \E o \in Procs \ {p} : InFlight(o),
                  status |-> 0, branch |-> "none"]
            ELSE IF InFlight(q) THEN [inflight[q] EXCEPT !.overlapped = TRUE]
            ELSE inflight[q]]
    /\ UNCHANGED <<profiles, recipes, ingredients, steps, ratings, favorites, follows,
                   notifications, blobs, response, ratingHist, recipeHist, opCount>>

\* recipes.update({...}).eq("id", recipe_id)
update_recipe_core(p) ==
    /\ inflight[p].pc = "core"
    /\ LET me == inflight[p]
       IN  recipes' = [i \in 1..Len(recipes) |->
                        IF recipes[i].id = me.recipe_id
                        THEN [recipes[i] EXCEPT !.title = me.data.title,
                                !.description = me.data.description,
                                !.category = me.data.category,
                                !.difficulty = me.data.difficulty,
                                !.prep_time = me.data.prep_time,
                                !.cook_time = me.data.cook_time]
                        ELSE recipes[i]]
    /\ inflight' = [inflight EXCEPT ![p] = [@ EXCEPT !.pc = "delete_ingredients"]]
    /\ UNCHANGED <<profiles, ingredients, steps, ratings, favorites, follows,
                   notifications, blobs, response, ratingHist, recipeHist, opCount>>

\* ingredients.delete().eq("recipe_id", recipe_id)
update_recipe_delete_ingredients(p) ==
    /\ inflight[p].pc = "delete_ingredients"
    /\ ingredients' = DeleteIngredients(inflight[p].recipe_id)
    /\ inflight' = [inflight EXCEPT ![p] = [@ EXCEPT !.pc = "insert_ingredients"]]
    /\ UNCHANGED <<profiles, recipes, steps, ratings, favorites, follows,
                   notifications, blobs, response, ratingHist, recipeHist, opCount>>

\* if recipe_data.get("ingredients"): ingredients.insert([...]).
\* unique: the store has a uniqueness constraint on (recipe_id, order_index)
\* and an insert that repeats a number raises
update_recipe_insert_ingredients(p, unique) ==
    /\ inflight[p].pc = "insert_ingredients"
    /\ LET me == inflight[p]
           list == me.data.ingredients
       IN  IF ~Truthy(list)
           THEN /\ ingredients' = ingredients
                /\ inflight' = [inflight EXCEPT ![p] = [@ EXCEPT !.pc = "delete_steps"]]
                /\ response' = response
           ELSE IF unique /\ IngredientClash(me.recipe_id, Len(list.items))
           THEN /\ ingredients' = ingredients
                /\ inflight' = Finished(p, 500, "none")
                /\ response' = UpdateResponse(p, 500)
           ELSE /\ ingredients' = ingredients \o NewIngredients(me.recipe_id, list.items)
                /\ inflight' = [inflight EXCEPT ![p] = [@ EXCEPT !.pc = "delete_steps"]]
                /\ response' = response
    /\ UNCHANGED <<profiles, recipes, steps, ratings, favorites, follows,
                   notifications, blobs, ratingHist, recipeHist, opCount>>

\* steps.delete().eq("recipe_id", recipe_id)
update_recipe_delete_steps(p) ==
    /\ inflight[p].pc = "delete_steps"
    /\ steps' = DeleteSteps(inflight[p].recipe_id)
    /\ inflight' = [inflight EXCEPT ![p] = [@ EXCEPT !.pc = "insert_steps"]]
    /\ UNCHANGED <<profiles, recipes, ingredients, ratings, favorites, follows,
                   notifications, blobs, response, ratingHist, recipeHist, opCount>>

\* if recipe_data.get("steps"): steps.insert([...]); then the return.
\* unique: as above, on (recipe_id, step_number)
update_recipe_insert_steps(p, unique) ==
    /\ inflight[p].pc = "insert_steps"
    /\ LET me == inflight[p]
           list == me.data.steps
           raised == Truthy(list) /\ unique /\ StepClash(me.recipe_id, Len(list.items))
       IN  /\ steps' = IF Truthy(list) /\ ~raised
                         THEN steps \o NewSteps(me.recipe_id, list.items)
                         ELSE steps
           /\ inflight' = Finished(p, IF raised THEN 500 ELSE 200, "none")
           /\ response' = UpdateResponse(p, IF raised THEN 500 ELSE 200)
    /\ UNCHANGED <<profiles, recipes, ingredients, ratings, favorites, follows,
                   notifications, blobs, ratingHist, recipeHist, opCount>>

(* ------------------------- follows and favorites ---------------------- *)
FollowRows(a, b) ==
    SelectSeq(follows, LAMBDA row : row.follower_id = a /\ row.following_id = b)

FavoriteRows(u, r) ==
    SelectSeq(favorites, LAMBDA row : row.user_id = u /\ row.recipe_id = r)

IsSelfFollow_Never(a, b) == FALSE

\* the validation of follow_user: follower_id == following_id
IsSelfFollow(a, b) == a = b

\* POST /api/follows. f is the remote call that raises a fault (0: none):
\* 1 follows.insert, 2 the follower lookup; nf: the notification insert raises.
\* A response carries, besides the status, what the request did (the number
\* of remote calls or uploads it made) and, for an error, the text of the
\* exception that ended the try block.
follow_user(a, b, f, nf) ==
    /\ f \in 0..2
    /\ opCount < MaxOps
    /\ LET req == [follower_id |-> a, following_id |-> b]
           follower == ProfileRows(a)
           raised ==
                IF IsSelfFollow(a, b) THEN <<0, HTTPExceptionText("400:", SelfFollowDetail)>>
                ELSE IF f = 1 THEN <<1, RemoteFaultText>>
                ELSE IF FollowRows(a, b) # <<>> THEN <<1, UniqueViolationText>>
                ELSE IF f = 2 THEN <<2, RemoteFaultText>>
                ELSE IF ~SingleOk(follower) THEN <<2, NoRowText>>
                ELSE IF HelperRaises(nf) THEN <<3, RemoteFaultText>>
                ELSE <<3, <<>>>>
           calls == raised[1]
           notify == calls = 3
           inserted == ~IsSelfFollow(a, b) /\ f # 1 /\ FollowRows(a, b) = <<>>
       IN  /\ follows' = IF inserted
                          THEN Append(follows, [follower_id |-> a, following_id |-> b])
                          ELSE follows
           /\ notifications' =
                IF notify
                THEN create_follow_notification(follower[1].username, b, a, nf)
                ELSE notifications
           /\ response' =
                IF raised[2] = <<>>
                THEN [handler |-> "follow_user", status |-> 200, req |-> req,
                      calls |-> calls, detail |-> <<>>,
                      notify |-> IF notify THEN Some(b) ELSE None]
                ELSE [handler |-> "follow_user", status |-> DuplicateExcept(raised[2]),
                      req |-> req, calls |-> calls, detail |-> raised[2],
                      notify |-> IF notify THEN Some(b) ELSE None]
    /\ opCount' = opCount + 1
    /\ UNCHANGED <<profiles, recipes, ingredients, steps, ratings, favorites, blobs,
                   ratingHist, recipeHist>>

    /\ UNCHANGED inflight
\* DELETE /api/follows/{follower_id}/{following_id}. f: the delete raises
unfollow_user(a, b, f) ==
    /\ opCount < MaxOps
    /\ follows' = IF f THEN follows
                   ELSE SelectSeq(follows, LAMBDA row :
                            ~(row.follower_id = a /\ row.following_id = b))
    /\ response' = IF f
                    THEN ErrorResponse("unfollow_user", PlainExcept(RemoteFaultText),
                                       [follower_id |-> a, following_id |-> b])
                    ELSE Success("unfollow_user", [follower_id |-> a, following_id |-> b],
                                 FollowRows(a, b))
    /\ opCount' = opCount + 1
    /\ UNCHANGED <<profiles, recipes, ingredients, steps, ratings, favorites,
                   notifications, blobs, ratingHist, recipeHist>>

    /\ UNCHANGED inflight
\* POST /api/favorites. f is the remote call that raises a fault (0: none):
\* 1 favorites.insert, 2 the recipe lookup, 3 the favoriter lookup;
\* nf: the notification insert raises
add_favorite(u, r, f, nf) ==
    /\ f \in 0..3
    /\ opCount < MaxOps
    /\ LET req == [user_id |-> u, recipe_id |-> r]
           recipe == RecipeRows(r)
           favoriter == ProfileRows(u)
           raised ==
                IF f = 1 THEN <<1, RemoteFaultText>>
                ELSE IF FavoriteRows(u, r) # <<>> THEN <<1, UniqueViolationText>>
                ELSE IF f = 2 THEN <<2, RemoteFaultText>>
                ELSE IF ~SingleOk(recipe) THEN <<2, NoRowText>>
                ELSE IF f = 3 THEN <<3, RemoteFaultText>>
                ELSE IF ~SingleOk(favoriter) THEN <<3, NoRowText>>
                ELSE IF OwnerDiffers(recipe[1].user_id, u) /\ HelperRaises(nf)
                     THEN <<4, RemoteFaultText>>
                ELSE <<4, <<>>>>
           inserted == f # 1 /\ FavoriteRows(u, r) = <<>>
           notify == raised[1] = 4 /\ OwnerDiffers(recipe[1].user_id, u)
       IN  /\ favorites' = IF inserted
                            THEN Append(favorites, [user_id |-> u, recipe_id |-> r])
                            ELSE favorites
           /\ notifications' =
                IF notify
                THEN create_favorite_notification(favoriter[1].username,
                                                  recipe[1].user_id, r, recipe[1].title, nf)
                ELSE notifications
           /\ response' =
                IF raised[2] = <<>>
                THEN [handler |-> "add_favorite", status |-> 200, req |-> req,
                      calls |-> raised[1], detail |-> <<>>,
                      notify |-> IF notify THEN Some(recipe[1].user_id) ELSE None]
                ELSE [handler |-> "add_favorite", status |-> DuplicateExcept(raised[2]),
                      req |-> req, calls |-> raised[1], detail |-> raised[2],
                      notify |-> IF notify THEN Some(recipe[1].user_id) ELSE None]
    /\ opCount' = opCount + 1
    /\ UNCHANGED <<profiles, recipes, ingredients, steps, ratings, follows, blobs,
                   ratingHist, recipeHist>>

    /\ UNCHANGED inflight
\* DELETE /api/favorites/{user_id}/{recipe_id}. f: the delete raises
remove_favorite(u, r, f) ==
    /\ opCount < MaxOps
    /\ favorites' = IF f THEN favorites
                     ELSE SelectSeq(favorites, LAMBDA row :
                            ~(row.user_id = u /\ row.recipe_id = r))
    /\ response' = IF f
                    THEN ErrorResponse("remove_favorite", PlainExcept(RemoteFaultText),
                                       [user_id |-> u, recipe_id |-> r])
                    ELSE Success("remove_favorite", [user_id |-> u, recipe_id |-> r],
                                 FavoriteRows(u, r))
    /\ opCount' = opCount + 1
    /\ UNCHANGED <<profiles, recipes, ingredients, steps, ratings, follows,
                   notifications, blobs, ratingHist, recipeHist>>

    /\ UNCHANGED inflight
\* query.range(offset, offset + limit - 1)
Page(rows, offset, limit) ==
    SubSeq(rows, offset + 1, IF offset + limit < Len(rows) THEN offset + limit ELSE Len(rows))

(* ---------------------------- notifications --------------------------- *)
\* A notification is named in a request by its place in the table at the
\* time of the request; 0 names no row
NotificationIds == 0..Len(notifications)

\* .limit(50) of get_notifications
NotificationLimit == 50

NotificationsOf(u, unread_only) ==
    SelectSeq(notifications, LAMBDA row : row.user_id = u /\ (unread_only => ~row.read))

\* GET /api/notifications/{user_id}: newest first, at most 50. f: the query raises
get_notifications(u, unread_only, f) ==
    /\ LET req == [user_id |-> u, unread_only |-> unread_only]
           mine == NotificationsOf(u, unread_only)
           newest == [i \in 1..Len(mine) |-> mine[Len(mine) + 1 - i]]
       IN  response' = IF f THEN ErrorResponse("get_notifications",
                                               PlainExcept(RemoteFaultText), req)
                        ELSE Success("get_notifications", req,
                                     Page(newest, 0, NotificationLimit))
    /\ UNCHANGED <<profiles, recipes, ingredients, steps, ratings, favorites, follows,
                   notifications, blobs, ratingHist, recipeHist, opCount>>

    /\ UNCHANGED inflight
\* GET /api/notifications/unread/count/{user_id}. f: the query raises
get_unread_count(u, f) ==
    /\ response' = IF f THEN ErrorResponse("get_unread_count",
                                           PlainExcept(RemoteFaultText), [user_id |-> u])
                    ELSE Success("get_unread_count", [user_id |-> u],
                                 Len(NotificationsOf(u, TRUE)))
    /\ UNCHANGED <<profiles, recipes, ingredients, steps, ratings, favorites, follows,
                   notifications, blobs, ratingHist, recipeHist, opCount>>

    /\ UNCHANGED inflight
\* notifications.update({"read": True}) on the rows that `hit` selects
MarkRead(hits) ==
    [i \in 1..Len(notifications) |->
        IF i \in hits THEN [notifications[i] EXCEPT !.read = TRUE] ELSE notifications[i]]

\* notifications.delete() on the rows that `hit` selects
DeleteNotifications(hits) ==
    LET tagged == [i \in 1..Len(notifications) |-> <<i, notifications[i]>>]
        kept == SelectSeq(tagged, LAMBDA t : t[1] \notin hits)
    IN  [i \in 1..Len(kept) |-> kept[i][2]]

\* PUT /api/notifications/{notification_id}/read. f: the update raises
mark_notification_as_read(notification_id, f) ==
    /\ opCount < MaxOps
    /\ notification_id \in NotificationIds
    /\ notifications' = IF f THEN notifications
                         ELSE MarkRead({notification_id})
    /\ response' = IF f THEN ErrorResponse("mark_notification_as_read",
                                           PlainExcept(RemoteFaultText),
                                           [notification_id |-> notification_id])
                    ELSE Success("mark_notification_as_read",
                                 [notification_id |-> notification_id],
                                 IF notification_id = 0 THEN 0 ELSE 1)
    /\ opCount' = opCount + 1
    /\ UNCHANGED <<profiles, recipes, ingredients, steps, ratings, favorites, follows,
                   blobs, ratingHist, recipeHist>>

    /\ UNCHANGED inflight
\* PUT /api/notifications/read-all/{user_id}. f: the update raises
mark_all_as_read(u, f) ==
    /\ opCount < MaxOps
    /\ notifications' = IF f THEN notifications
                         ELSE MarkRead({i \in DOMAIN notifications :
                                        notifications[i].user_id = u
                                        /\ ~notifications[i].read})
    /\ response' = IF f THEN ErrorResponse("mark_all_as_read",
                                           PlainExcept(RemoteFaultText), [user_id |-> u])
                    ELSE Success("mark_all_as_read", [user_id |-> u],
                                 Len(NotificationsOf(u, TRUE)))
    /\ opCount' = opCount + 1
    /\ UNCHANGED <<profiles, recipes, ingredients, steps, ratings, favorites, follows,
                   blobs, ratingHist, recipeHist>>

    /\ UNCHANGED inflight
\* DELETE /api/notifications/{notification_id}. f: the delete raises
delete_notification(notification_id, f) ==
    /\ opCount < MaxOps
    /\ notification_id \in NotificationIds
    /\ notifications' = IF f THEN notifications
                         ELSE DeleteNotifications({notification_id})
    /\ response' = IF f THEN ErrorResponse("delete_notification",
                                           PlainExcept(RemoteFaultText),
                                           [notification_id |-> notification_id])
                    ELSE Success("delete_notification",
                                 [notification_id |-> notification_id],
                                 IF notification_id = 0 THEN 0 ELSE 1)
    /\ opCount' = opCount + 1
    /\ UNCHANGED <<profiles, recipes, ingredients, steps, ratings, favorites, follows,
                   blobs, ratingHist, recipeHist>>

    /\ UNCHANGED inflight
\* DELETE /api/notifications/clear/{user_id}. f: the delete raises
clear_all_notifications(u, f) ==
    /\ opCount < MaxOps
    /\ notifications' = IF f THEN notifications
                         ELSE DeleteNotifications({i \in DOMAIN notifications : notifications[i].user_id = u})
    /\ response' = IF f THEN ErrorResponse("clear_all_notifications",
                                           PlainExcept(RemoteFaultText), [user_id |-> u])
                    ELSE Success("clear_all_notifications", [user_id |-> u],
                                 Len(NotificationsOf(u, FALSE)))
    /\ opCount' = opCount + 1
    /\ UNCHANGED <<profiles, recipes, ingredients, steps, ratings, favorites, follows,
                   blobs, ratingHist, recipeHist>>

    /\ UNCHANGED inflight
(* ------------------------------ uploads -------------------------------- *)
\* the two validations of upload_avatar
IsImage(file) == StartsWith(file.content_type, <<"image", "/">>)
AvatarTooBig(file) == file.size > AvatarMaxBytes

\* the batch-size validation of upload_recipe_images
TooManyImages(files) == Len(files) > MaxImages

\* POST /api/upload/avatar. f is the storage call that raises (0: none):
\* 1 upload, 2 get_public_url. Every exception of the try block, the
\* HTTPException(400) of the validations included, reaches `except Exception`.
upload_avatar(file, user_id, f) ==
    /\ f \in 0..2
    /\ blobs.avatars + blobs.recipes < MaxBlobs
    /\ LET req == [file |-> file]
           raised ==
                IF file.content_type = NoType THEN <<"AttributeError">>
                ELSE IF ~IsImage(file) THEN HTTPExceptionText("400:", NotImageDetail)
                ELSE IF AvatarTooBig(file) THEN HTTPExceptionText("400:", TooBigDetail)
                ELSE IF f # 0 THEN RemoteFaultText
                ELSE <<>>
           stored == file.content_type # NoType /\ IsImage(file) /\ ~AvatarTooBig(file)
                        /\ f # 1
       IN  /\ blobs' = IF stored THEN [blobs EXCEPT !.avatars = @ + 1] ELSE blobs
           /\ response' =
                IF raised = <<>>
                THEN [handler |-> "upload_avatar", status |-> 200, req |-> req,
                      uploads |-> 1, detail |-> <<>>]
                ELSE [handler |-> "upload_avatar", status |-> PlainExcept(raised),
                      req |-> req, uploads |-> IF stored THEN 1 ELSE 0,
                      detail |-> raised]
    /\ UNCHANGED <<profiles, recipes, ingredients, steps, ratings, favorites, follows,
                   notifications, ratingHist, recipeHist, opCount>>

    /\ UNCHANGED inflight
\* the loop of upload_recipe_images over files[i..], with `done` uploads so
\* far: the number of uploads made and the exception that ended the loop, if
\* any. f is the upload that raises (0: none).
RECURSIVE UploadLoop(_, _, _, _)
UploadLoop(files, i, done, f) ==
    IF i > Len(files) THEN <<done, <<>>>>
    ELSE IF files[i].content_type = NoType THEN <<done, <<"AttributeError">>>>
    ELSE IF ~IsImage(files[i]) THEN UploadLoop(files, i + 1, done, f)
    ELSE IF files[i].size > ImageMaxBytes THEN UploadLoop(files, i + 1, done, f)
    ELSE IF f = done + 1 THEN <<done, RemoteFaultText>>
    ELSE UploadLoop(files, i + 1, done + 1, f)

\* POST /api/upload/recipe-images
upload_recipe_images(files, f) ==
    /\ f \in 0..2
    /\ LET req == [count |-> Len(files)]
           loop == IF TooManyImages(files)
                   THEN <<0, HTTPExceptionText("400:", TooManyDetail)>>
                   ELSE UploadLoop(files, 1, 0, f)
       IN  /\ blobs.avatars + blobs.recipes < MaxBlobs
           /\ blobs' = [blobs EXCEPT !.recipes = @ + loop[1]]
           /\ response' =
                IF loop[2] = <<>>
                THEN [handler |-> "upload_recipe_images", status |-> 200, req |-> req,
                      uploads |-> loop[1], detail |-> <<>>]
                ELSE [handler |-> "upload_recipe_images", status |-> PlainExcept(loop[2]),
                      req |-> req, uploads |-> loop[1], detail |-> loop[2]]
    /\ UNCHANGED <<profiles, recipes, ingredients, steps, ratings, favorites, follows,
                   notifications, ratingHist, recipeHist, opCount>>

    /\ UNCHANGED inflight
(* --------------------------- list and search --------------------------- *)
\* Python truthiness of an Optional[int] / Optional[float] / Optional[str]
TruthyNum(opt) == opt # None /\ opt[1] # 0
TruthyStr(opt) == opt # None /\ opt[1] # ""

WithProfile(recipe, profile) ==
    [id |-> recipe.id, user_id |-> recipe.user_id, title |-> recipe.title,
     description |-> recipe.description, category |-> recipe.category,
     difficulty |-> recipe.difficulty, prep_time |-> recipe.prep_time,
     cook_time |-> recipe.cook_time, created_at |-> recipe.created_at,
     profile |-> profile]

\* GET /api/recipes. f: the recipes query raises; pf: the users whose profile
\* lookup raises (swallowed by the inner except)
get_recipes(category, difficulty, limit, f, pf) ==
    /\ LET req == [category |-> category, difficulty |-> difficulty, limit |-> limit,
                   pf |-> pf]
           matching == SelectSeq(recipes, LAMBDA row :
                            /\ TruthyStr(category) => row.category = category[1]
                            /\ TruthyStr(difficulty) => row.difficulty = difficulty[1])
       IN  IF f THEN response' = [handler |-> "get_recipes",
                                  status |-> PlainExcept(RemoteFaultText),
                                  req |-> req, detail |-> RemoteFaultText]
           ELSE \E sorted \in OrderBy(matching, "created_at", TRUE) :
                LET data == Page(sorted, 0, limit)
                IN  response' = Success("get_recipes", req,
                        [i \in 1..Len(data) |->
                            WithProfile(data[i],
                                AttachProfile(data[i], Anonim, data[i].user_id \in pf))])
    /\ UNCHANGED <<profiles, recipes, ingredients, steps, ratings, favorites, follows,
                   notifications, blobs, ratingHist, recipeHist, opCount>>

    /\ UNCHANGED inflight
\* the text filter of search_recipes on one recipe:
\* q.lower() in title.lower() or q.lower() in description.lower()
TextMatch(q, recipe) ==
    \/ Contains(LowerText(recipe.title), LowerText(q))
    \/ Contains(LowerText(recipe.description), LowerText(q))

\* (a variant that rounds the mean to the nearest integer first)
RatingPasses_Rounded(rows, min_rating) ==
    IF rows # <<>>
    THEN (2 * Average(rows).num + Average(rows).den) \div (2 * Average(rows).den)
            >= min_rating
    ELSE min_rating = 0

\* the rating filter of search_recipes on one recipe whose rating rows are
\* `rows`: sum / len >= min_rating, compared exactly as sum >= min_rating * len
RatingPasses(rows, min_rating) ==
    IF rows # <<>>
    THEN Average(rows).num >= min_rating * Average(rows).den
    ELSE min_rating = 0

\* GET /api/recipes/search handler. f is the remote call that raises to the
\* outer except (0: none): 1 the recipes query, 2 a ratings query;
\* pf: the users whose profile lookup raises (swallowed)
search_recipes(p, f, pf) ==
    /\ f \in 0..2
    /\ LET req == [q |-> p.q, category |-> p.category, difficulty |-> p.difficulty,
                   max_time |-> p.max_time, min_rating |-> p.min_rating,
                   sort_by |-> p.sort_by, order |-> p.order, limit |-> p.limit,
                   offset |-> p.offset, pf |-> pf]
           matching == SelectSeq(recipes, LAMBDA row :
                /\ TruthyStr(p.category) => row.category = p.category[1]
                /\ TruthyStr(p.difficulty) => row.difficulty = p.difficulty[1]
                /\ TruthyNum(p.max_time) =>
                        (row.prep_time <= p.max_time[1] /\ row.cook_time <= p.max_time[1]))
           error(text) == [handler |-> "search_recipes", status |-> PlainExcept(text),
                           req |-> req, detail |-> text]
       IN  IF f = 1 THEN response' = error(RemoteFaultText)
           ELSE \E sorted \in OrderBy(matching, p.sort_by,
                                       p.order = "desc") :
                LET data == Page(sorted, p.offset, p.limit)
                    useQ == p.q # None /\ p.q[1] # <<>>
                    noText == useQ /\ \E i \in 1..Len(data) :
                                data[i].title = NoneText \/ data[i].description = NoneText
                    recipes_with_users ==
                        SelectSeq([i \in 1..Len(data) |->
                                    WithProfile(data[i],
                                        AttachProfile(data[i], Anonim,
                                                      data[i].user_id \in pf))],
                                  LAMBDA r : useQ => TextMatch(p.q[1], r))
                    filtered ==
                        SelectSeq(recipes_with_users,
                                  LAMBDA r : RatingPasses(RecipeRatings(r.id),
                                                          p.min_rating[1]))
                IN  IF noText THEN response' = error(<<"AttributeError">>)
                    ELSE IF TruthyNum(p.min_rating)
                    THEN IF f = 2 /\ recipes_with_users # <<>>
                         THEN response' = error(RemoteFaultText)
                         ELSE response' = Success("search_recipes", req, filtered)
                    ELSE response' = Success("search_recipes", req, recipes_with_users)
    /\ UNCHANGED <<profiles, recipes, ingredients, steps, ratings, favorites, follows,
                   notifications, blobs, ratingHist, recipeHist, opCount>>

    /\ UNCHANGED inflight
\* GET /api/favorites/{user_id}. f: the favorites query raises; pf: the
\* users whose profile lookup raises (swallowed). The rows come newest first,
\* each with its joined recipe, and rows without one are skipped.
get_user_favorites(u, f, pf) ==
    /\ LET req == [user_id |-> u, pf |-> pf]
           mine == SelectSeq(favorites, LAMBDA row : row.user_id = u)
           newest == [i \in 1..Len(mine) |-> mine[Len(mine) + 1 - i]]
           joined == SelectSeq(newest, LAMBDA row : RecipeRows(row.recipe_id) # <<>>)
       IN  response' =
            IF f THEN [handler |-> "get_user_favorites",
                       status |-> PlainExcept(RemoteFaultText),
                       req |-> req, detail |-> RemoteFaultText]
            ELSE Success("get_user_favorites", req,
                    [i \in 1..Len(joined) |->
                        LET recipe == RecipeRows(joined[i].recipe_id)[1]
                        IN  WithProfile(recipe,
                                AttachProfile(recipe, Anonim, recipe.user_id \in pf))])
    /\ UNCHANGED <<profiles, recipes, ingredients, steps, ratings, favorites, follows,
                   notifications, blobs, ratingHist, recipeHist, opCount>>

    /\ UNCHANGED inflight
\* the except clause of get_profile: 404 whatever was raised
ProfileExcept(text) == 404

\* GET /api/profiles/{user_id}. f: the lookup raises a remote fault
get_profile(u, f) ==
    /\ LET req == [user_id |-> u]
           raised == IF f THEN RemoteFaultText
                     ELSE IF ~SingleOk(ProfileRows(u)) THEN NoRowText
                     ELSE <<>>
       IN  response' =
            IF raised # <<>>
            THEN [handler |-> "get_profile", status |-> ProfileExcept(raised),
                  req |-> req, detail |-> raised]
            ELSE Success("get_profile", req, ProfileRows(u)[1])
    /\ UNCHANGED <<profiles, recipes, ingredients, steps, ratings, favorites, follows,
                   notifications, blobs, ratingHist, recipeHist, opCount>>

    /\ UNCHANGED inflight
(* ------------------------------ routing --------------------------------- *)
\* The routes in the order their decorators register them; a path is the
\* sequence of its segments
Route(method, path, handler) == [method |-> method, path |-> path, handler |-> handler]

Routes ==
    << Route("GET", <<>>, "root"),
       Route("GET", <<"api", "test">>, "test"),
       Route("GET", <<"api", "users", "search">>, "search_users"),
       Route("GET", <<"api", "profiles", "{user_id}">>, "get_profile"),
       Route("PUT", <<"api", "profiles", "{user_id}">>, "update_profile"),
       Route("POST", <<"api", "upload", "avatar">>, "upload_avatar"),
       Route("POST", <<"api", "upload", "recipe-images">>, "upload_recipe_images"),
       Route("GET", <<"api", "recipes">>, "get_recipes"),
       Route("POST", <<"api", "recipes">>, "create_recipe"),
       Route("GET", <<"api", "recipes", "{recipe_id}">>, "get_recipe"),
       Route("PUT", <<"api", "recipes", "{recipe_id}">>, "update_recipe"),
       Route("DELETE", <<"api", "recipes", "{recipe_id}">>, "delete_recipe"),
       Route("GET", <<"api", "categories">>, "get_categories"),
       Route("GET", <<"api", "favorites", "{user_id}">>, "get_user_favorites"),
       Route("POST", <<"api", "favorites">>, "add_favorite"),
       Route("DELETE", <<"api", "favorites", "{user_id}", "{recipe_id}">>, "remove_favorite"),
       Route("GET", <<"api", "favorites", "check", "{user_id}", "{recipe_id}">>,
             "check_favorite"),
       Route("POST", <<"api", "ratings">>, "add_rating"),
       Route("DELETE", <<"api", "ratings", "{user_id}", "{recipe_id}">>, "delete_rating"),
       Route("GET", <<"api", "ratings", "user", "{user_id}", "{recipe_id}">>,
             "get_user_rating"),
       Route("POST", <<"api", "follows">>, "follow_user"),
       Route("DELETE", <<"api", "follows", "{follower_id}", "{following_id}">>,
             "unfollow_user"),
       Route("GET", <<"api", "follows", "check", "{follower_id}", "{following_id}">>,
             "check_following"),
       Route("GET", <<"api", "follows", "followers", "{user_id}">>, "get_followers"),
       Route("GET", <<"api", "follows", "following", "{user_id}">>, "get_following"),
       Route("GET", <<"api", "follows", "stats", "{user_id}">>, "get_follow_stats"),
       Route("GET", <<"api", "notifications", "{user_id}">>, "get_notifications"),
       Route("GET", <<"api", "notifications", "unread", "count", "{user_id}">>,
             "get_unread_count"),
       Route("PUT", <<"api", "notifications", "{notification_id}", "read">>,
             "mark_notification_as_read"),
       Route("PUT", <<"api", "notifications", "read-all", "{user_id}">>, "mark_all_as_read"),
       Route("DELETE", <<"api", "notifications", "{notification_id}">>,
             "delete_notification"),
       Route("DELETE", <<"api", "notifications", "clear", "{user_id}">>,
             "clear_all_notifications"),
       Route("GET", <<"api", "recipes", "search">>, "search_recipes") >>

PathParams == {"{user_id}", "{recipe_id}", "{follower_id}", "{following_id}",
               "{notification_id}"}

\* a route matches a request when the methods agree and every segment of the
\* path equals the pattern's segment or fills a path parameter
Matches(route, method, path) ==
    /\ route.method = method
    /\ Len(route.path) = Len(path)
    /\ \A i \in 1..Len(path) : route.path[i] \in PathParams \/ route.path[i] = path[i]

\* the first matching route in registration order, 0 if none
Dispatch(method, path) ==
    LET hits == {i \in 1..Len(Routes) : Matches(Routes[i], method, path)}
    IN  IF hits = {} THEN 0 ELSE CHOOSE i \in hits : \A j \in hits : i <= j

\* the requests routed in the model
SampleRequests ==
    {<<"GET", <<"api", "recipes", "search">>>>,
     <<"GET", <<"api", "recipes", "r1">>>>,
     <<"GET", <<"api", "recipes">>>>,
     <<"GET", <<"api", "users", "search">>>>,
     <<"GET", <<"api", "favorites", "u1">>>>,
     <<"GET", <<"api", "favorites", "check", "u1", "r1">>>>,
     <<"GET", <<"api", "notifications", "u1">>>>,
     <<"GET", <<"api", "notifications", "unread", "count", "u1">>>>,
     <<"PUT", <<"api", "notifications", "read-all", "u1">>>>,
     <<"DELETE", <<"api", "notifications", "clear", "u1">>>>,
     <<"GET", <<"api", "profiles", "u1">>>>,
     <<"GET", <<"api", "nothing">>>>}

\* the framework routes one request: the outcome names the handler that the
\* request is handed to
route(method, path) ==
    /\ response' = [handler |-> "route", status |-> 0,
                    req |-> [method |-> method, path |-> path],
                    routed |-> IF Dispatch(method, path) = 0 THEN "not_found"
                               ELSE Routes[Dispatch(method, path)].handler]
    /\ UNCHANGED <<profiles, recipes, ingredients, steps, ratings, favorites, follows,
                   notifications, blobs, ratingHist, recipeHist, opCount>>

    /\ UNCHANGED inflight
\* Query strings of GET /api/recipes/search
SearchParams(q, category, max_time, min_rating, sort_by, order, limit, offset) ==
    [q |-> q, category |-> category, difficulty |-> None, max_time |-> max_time,
     min_rating |-> min_rating, sort_by |-> sort_by, order |-> order,
     limit |-> limit, offset |-> offset]

DefaultSearch == SearchParams(None, None, None, None, "created_at", "desc", 20, 0)

SearchRequests ==
    {SearchParams(q, None, t, m, "created_at", "desc", 20, 0) :
        q \in {None, Some(<<"O", "u">>)},
        t \in {None, Some(0), Some(1)},
        m \in {None, Some(0), Some(4)}}
    \cup {SearchParams(None, None, None, Some(3), "created_at", "desc", 20, 0),
          SearchParams(None, None, None, None, "created_at", "desc", 1, 1),
          SearchParams(None, None, None, Some(4), "created_at", "asc", 1, 1),
          SearchParams(None, Some("soup"), None, None, "prep_time", "asc", 20, 0),
          SearchParams(None, Some(""), Some(2), Some(4), "prep_time", "desc", 1, 0)}

\* the recipe ids a request can carry
ExistingIds == {recipes[i].id : i \in DOMAIN recipes}
KnownIds == ExistingIds \cup {UnknownId}

(* ---------------- specification: recipe create/update/read ------------- *)
\* remote failures are injected into the requests about the first recipe
NextRecipe ==
    \/ \E data \in FullRecipeInputs, f \in 0..3 :
            /\ Len(recipes) < MaxEdited
            /\ f # 0 => recipes = <<>>
            /\ create_recipe(data, f)
    \/ \E r \in KnownIds, data \in FullRecipeInputs, f \in 0..5 :
            /\ r = UnknownId => data.ingredients = List(SaltFirst(1))
            /\ f # 0 => r = RecipeIdPool[1]
            /\ update_recipe(r, data, f)
    \/ \E r \in KnownIds, f \in {0, 1, 3, 4, 5} : get_recipe(r, f, FALSE, {})

\* the recipe handlers read no profile: one profile table is enough here
InitRecipe == Init /\ profiles = Users

SpecRecipe == InitRecipe /\ [][NextRecipe]_vars

\* the rows a child list submitted as `list` must be retrievable as
IsSubmittedIngredients(rows, r, list) ==
    /\ Len(rows) = Len(list)
    /\ \A i \in 1..Len(rows) :
        /\ rows[i].order_index = i
        /\ rows[i].recipe_id = r
        /\ rows[i].name = list[i].name
        /\ rows[i].quantity = list[i].quantity
        /\ rows[i].unit = list[i].unit

IsSubmittedSteps(rows, r, list) ==
    /\ Len(rows) = Len(list)
    /\ \A i \in 1..Len(rows) :
        /\ rows[i].step_number = i
        /\ rows[i].recipe_id = r
        /\ rows[i].description = list[i].description

\* C2: after create_recipe/update_recipe requests that each completed without
\* a remote failure, the ingredients and steps of the recipe, as stored and as
\* get_recipe returns them, are exactly the lists of the most recent request,
\* in submitted order, numbered 1..N and 1..M; an empty or missing list leaves
\* no rows.
C2_ChildrenReplaced ==
    /\ \A r \in RecipeIds : recipeHist[r].known =>
        /\ \A ings \in OrderBy(IngredientRows(r), "order_index", FALSE) :
                IsSubmittedIngredients(ings, r, recipeHist[r].ingredients)
        /\ \A sts \in OrderBy(StepRows(r), "step_number", FALSE) :
                IsSubmittedSteps(sts, r, recipeHist[r].steps)
    /\ (response.handler = "get_recipe" /\ response.status = 200
            /\ response.req.recipe_id \in RecipeIds
            /\ recipeHist[response.req.recipe_id].known) =>
        /\ IsSubmittedIngredients(response.body.ingredients, response.req.recipe_id,
                                  recipeHist[response.req.recipe_id].ingredients)
        /\ IsSubmittedSteps(response.body.steps, response.req.recipe_id,
                            recipeHist[response.req.recipe_id].steps)

\* an update has replaced a different list by a one-item list while another
\* recipe id has rows of its own, and get_recipe has returned the new list
C2_Witness ==
    /\ response.handler = "get_recipe" /\ response.status = 200
    /\ response.req.recipe_id \in RecipeIds
    /\ recipeHist[response.req.recipe_id].known
    /\ recipeHist[response.req.recipe_id].replaced
    /\ recipeHist[response.req.recipe_id].ingredients = <<Oil>>
    /\ Len(response.body.ingredients) = 1
    /\ Len(response.body.steps) = MaxList - 1
    /\ IngredientRows(UnknownId) # <<>>

(* --------------------- specification: ratings -------------------------- *)
NextRating ==
    \/ \E data \in PlainRecipeInputs, f \in 0..1 :
            /\ Len(recipes) < MaxEdited
            /\ data.title = Soup
            /\ recipes # <<>> => (data.user_id = "u2" /\ f = 0)
            /\ create_recipe(data, f)
    \/ \E u \in Users, r \in ExistingIds, body \in RatingBodies, f \in 0..4,
          nf \in BOOLEAN :
            /\ r # RecipeIdPool[1] => (u = "u1" /\ f = 0 /\ ~nf)
            /\ add_rating(u, r, body, f, nf)
    \/ \E u \in Users, r \in ExistingIds, f \in BOOLEAN :
            /\ r # RecipeIdPool[1] => (u = "u1" /\ ~f)
            /\ delete_rating(u, r, f)

SpecRating == Init /\ [][NextRating]_vars

\* what C1 says of a pair after its add_rating calls: exactly one row, with
\* the rating and comment of the last call, and at most one notification,
\* created by the first call
UpsertHolds(u, r) ==
    LET h == ratingHist[<<u, r>>]
        rows == RatingRows(u, r)
    IN  /\ Len(rows) = 1
        /\ rows[1].rating = h.last[1].rating
        /\ rows[1].comment = IF h.last[1].comment = Missing THEN ""
                              ELSE h.last[1].comment
        /\ h.notifs <= 1
        /\ h.notifs = 1 => h.notifiedAt = 1

NextSocial ==
    \/ \E data \in PlainRecipeInputs :
            /\ Len(recipes) < MaxEdited
            /\ data.title = Soup
            /\ recipes # <<>> => data.user_id = "u2"
            /\ create_recipe(data, 0)
    \/ \E a, b \in Users, f \in 0..2, nf \in BOOLEAN : follow_user(a, b, f, nf)
    \/ \E a, b \in Users, f \in BOOLEAN : unfollow_user(a, b, f)
    \/ \E u \in Users, r \in KnownIds, f \in 0..3, nf \in BOOLEAN :
            /\ r \in ExistingIds \ {RecipeIdPool[1]} => (u = "u1" /\ f = 0 /\ ~nf)
            /\ add_favorite(u, r, f, nf)
    \/ \E u \in Users, r \in KnownIds, f \in BOOLEAN :
            /\ r \in ExistingIds \ {RecipeIdPool[1]} => (u = "u1" /\ ~f)
            /\ remove_favorite(u, r, f)

SpecSocial == Init /\ [][NextSocial]_vars

\* C3: a follow_user request whose follower_id equals its following_id is
\* rejected before any remote call, inserts no follows row and creates no
\* notification; so no follows row ever has follower_id = following_id.
C3_NoSelfFollow ==
    /\ [](\A i \in DOMAIN follows : follows[i].follower_id # follows[i].following_id)
    /\ [][(/\ opCount' # opCount
            /\ response'.handler = "follow_user"
            /\ response'.req.follower_id = response'.req.following_id)
           => /\ response'.calls = 0
              /\ response'.status # 200
              /\ follows' = follows
              /\ notifications' = notifications]_vars

\* a self-follow has just been answered while the store holds a follow row
\* and its notification
C3_Witness ==
    /\ response.handler = "follow_user"
    /\ response.req.follower_id = response.req.following_id
    /\ follows # <<>>
    /\ notifications # <<>>

\* C4: a follow_user or add_favorite request for a pair that already has a row,
\* whose insert the store rejects with its "duplicate" error (no other fault
\* ends the request), is answered 400, adds no row and creates no notification.
C4_DuplicateIs400 ==
    [][LET req == response'.req
       IN  /\ (/\ opCount' # opCount
                /\ response'.handler = "follow_user"
                /\ FollowRows(req.follower_id, req.following_id) # <<>>
                /\ response'.detail # RemoteFaultText)
               => /\ response'.status = 400
                  /\ follows' = follows
                  /\ notifications' = notifications
           /\ (/\ opCount' # opCount
                /\ response'.handler = "add_favorite"
                /\ FavoriteRows(req.user_id, req.recipe_id) # <<>>
                /\ response'.detail # RemoteFaultText)
               => /\ response'.status = 400
                  /\ favorites' = favorites
                  /\ notifications' = notifications]_vars

\* a repeated follow has been answered 400 with the pair's single row and
\* single notification in place, while a favorite row exists too
C4_Witness ==
    /\ response.handler = "follow_user" /\ response.status = 400
    /\ Len(FollowRows(response.req.follower_id, response.req.following_id)) = 1
    /\ Len(SelectSeq(notifications, LAMBDA n : n.type = "follow")) = 1
    /\ favorites # <<>>

(* ------------- specification: uploads and request validation ---------- *)
NextUpload ==
    \/ \E file \in AvatarFiles, u \in Users, f \in 0..2 : upload_avatar(file, u, f)
    \/ \E files \in ImageBatches, f \in 0..2 : upload_recipe_images(files, f)
    \/ \E a, b \in Users, f \in 0..2, nf \in BOOLEAN : follow_user(a, b, f, nf)

SpecUpload == Init /\ [][NextUpload]_vars

\* C5: an upload_recipe_images request with more than 10 files is answered
\* 400 and uploads none of the files.
C5_TooManyIs400 ==
    (response.handler = "upload_recipe_images" /\ response.req.count > 10)
        => (response.status = 400 /\ response.uploads = 0)

\* C6: each validation rejection is answered 400: a self-follow, an avatar
\* whose content type does not start with image/, an avatar larger than 2 MB;
\* and the avatar rejections store nothing.
C6_ValidationIs400 ==
    /\ (response.handler = "follow_user"
            /\ response.req.follower_id = response.req.following_id)
        => response.status = 400
    /\ (response.handler = "upload_avatar"
            /\ response.req.file.content_type # NoType
            /\ ~StartsWith(response.req.file.content_type, <<"image", "/">>))
        => (response.status = 400 /\ response.uploads = 0)
    /\ (response.handler = "upload_avatar"
            /\ response.req.file.content_type # NoType
            /\ response.req.file.size > 2 * 1024 * 1024)
        => (response.status = 400 /\ response.uploads = 0)

(* ------------------ specification: list, detail, routing --------------- *)
NextRead ==
    \/ \E data \in PlainRecipeInputs :
            /\ Len(recipes) < MaxRecipes
            /\ data.title = Soup /\ data.user_id # "u1"
            /\ create_recipe(data, 0)
    \/ \E r \in ExistingIds \cap {RecipeIdPool[1], RecipeIdPool[2]} :
            /\ FavoriteRows("u1", r) = <<>>
            /\ add_favorite("u1", r, 0, FALSE)
    \/ \E category \in {None, Some("soup")}, limit \in {1, 100}, f \in BOOLEAN,
          pf \in {{}, {"u2"}} :
            /\ f => (category = None /\ limit = 100 /\ pf = {})
            /\ get_recipes(category, None, limit, f, pf)
    \/ \E r \in KnownIds, f \in {0, 1, 3}, pf \in BOOLEAN :
            /\ f # 0 => ~pf
            /\ get_recipe(r, f, pf, {})
    \/ \E p \in SearchRequests, f \in 0..1, pf \in {{}, {"u2"}} :
            /\ p.max_time = None /\ p.min_rating = None
            /\ f # 0 => (p = DefaultSearch /\ pf = {})
            /\ search_recipes(p, f, pf)
    \/ \E u \in Users, f \in BOOLEAN, pf \in {{}, {"u2"}} :
            /\ f => pf = {}
            /\ get_user_favorites(u, f, pf)
    \/ \E u \in Users, f \in BOOLEAN : get_profile(u, f)
    \/ \E r \in SampleRequests : route(r[1], r[2])

SpecRead == Init /\ [][NextRead]_vars

\* the profile attached to a returned recipe is an object, and it is the
\* anonymous sentinel when the recipe has no user_id or the owner's profile
\* lookup raised or found no row
ProfileAttached(recipe, profile, raised) ==
    /\ profile # NullProfile
    /\ (recipe.user_id = Null \/ raised \/ recipe.user_id \notin profiles)
        => (profile.username = "Anonim" /\ profile.avatar_url = Null)

\* C7: every recipe returned by get_recipes, get_recipe, search_recipes or
\* get_user_favorites has a non-null profile, the anonymous sentinel when the
\* recipe has no user_id or the owner's profile lookup finds no row or raises;
\* such a lookup never fails the request (an error response of these handlers
\* comes from another call).
C7_ProfileNeverNull ==
    /\ (response.handler \in {"get_recipes", "search_recipes", "get_user_favorites"}
            /\ response.status = 200)
        => \A i \in DOMAIN response.body :
                ProfileAttached(response.body[i], response.body[i].profile,
                                response.body[i].user_id \in response.req.pf)
    /\ (response.handler = "get_recipe" /\ response.status = 200)
        => ProfileAttached(response.body.recipe, response.body.profile, response.req.pf)
    /\ (response.handler \in {"get_recipes", "search_recipes", "get_user_favorites",
                               "get_recipe"} /\ response.status # 200)
        => response.detail \in {RemoteFaultText, NoRowText}

\* a list of two recipes has been returned, one without user_id and one whose
\* owner's profile lookup failed, both with the sentinel
C7_Witness ==
    /\ response.handler = "get_recipes" /\ response.status = 200
    /\ Len(response.body) = 2
    /\ \E i, j \in DOMAIN response.body :
        /\ response.body[i].user_id = Null
        /\ response.body[i].profile = Anonim
        /\ response.body[j].user_id # Null
        /\ (response.body[j].user_id \in response.req.pf
                \/ response.body[j].user_id \notin profiles)
        /\ response.body[j].profile = Anonim

\* C9: GET /api/recipes/search is dispatched to search_recipes, not to
\* get_recipe with recipe_id = "search".
C9_SearchRouted ==
    (response.handler = "route" /\ response.req.method = "GET"
        /\ response.req.path = <<"api", "recipes", "search">>)
    => response.routed = "search_recipes"

\* C10: get_recipe and get_profile answer 404 when the single-row lookup
\* matches no row, and 500 when the store raises a fault.
C10_NotFoundIs404 ==
    (response.handler \in {"get_recipe", "get_profile"} /\ response.status # 200)
    => /\ response.detail = NoRowText => response.status = 404
       /\ response.detail = RemoteFaultText => response.status = 500

(* ----------------------- specification: search -------------------------- *)
NextSearch ==
    \/ \E data \in PlainRecipeInputs :
            /\ Len(recipes) < MaxRecipes
            /\ data.user_id = "u1"
            /\ create_recipe(data, 0)
    \/ \E u \in Users, r \in ExistingIds \cap {RecipeIdPool[1], RecipeIdPool[2]},
          body \in RatingBodies :
            /\ ~RatingExists(u, r)
            /\ (u = "u1") = (body.rating = 3)
            /\ u = "u1" => r = RecipeIdPool[1]
            /\ add_rating(u, r, body, 0, FALSE)
    \/ \E p \in SearchRequests, f \in 0..2 :
            /\ f # 0 => p \in {DefaultSearch, [DefaultSearch EXCEPT !.min_rating = Some(4)]}
            /\ search_recipes(p, f, {})

SpecSearch == Init /\ [][NextSearch]_vars

\* C8: with a minimum-rating threshold m, search_recipes returns a recipe only
\* if the mean of all its rating values is >= m (sum >= m * count).
C8_MinRating ==
    [][(response'.handler = "search_recipes" /\ response'.status = 200
            /\ response'.req.min_rating # None)
       => \A i \in DOMAIN response'.body :
            LET rows == RecipeRatings(response'.body[i].id)
            IN  SeqSum([k \in 1..Len(rows) |-> rows[k].rating])
                    >= response'.req.min_rating[1] * Len(rows)]_vars

\* a search with m = 4 over the whole table has left out a recipe rated 3 and
\* 4 (mean 3.5)
C8_Witness ==
    /\ response.handler = "search_recipes" /\ response.status = 200
    /\ response.req.min_rating = Some(4)
    /\ response.req.q = None /\ response.req.max_time = None
    /\ response.req.offset = 0
    /\ \E r \in ExistingIds :
        /\ Len(RecipeRatings(r)) = 2
        /\ SeqSum([k \in 1..2 |-> RecipeRatings(r)[k].rating]) = 7
        /\ \A i \in DOMAIN response.body : response.body[i].id # r

\* C14: a search_recipes request that supplies a max_time ceiling c >= 0
\* returns only recipes with prep_time <= c and cook_time <= c, and never
\* more than limit recipes.
C14_MaxTimeAndLimit ==
    (response.handler = "search_recipes" /\ response.status = 200
        /\ response.req.max_time # None)
    => /\ \A i \in DOMAIN response.body :
            /\ response.body[i].prep_time <= response.req.max_time[1]
            /\ response.body[i].cook_time <= response.req.max_time[1]
       /\ Len(response.body) <= response.req.limit

(* ------------- specification: writes and their notifications ----------- *)
\* u2 rates and favorites recipes owned by u1, by u2 or by nobody; u1 reads
\* and clears notifications; requests about a recipe other than the first
\* meet no fault
NextNotify ==
    \/ \E data \in PlainRecipeInputs :
            /\ Len(recipes) < MaxEdited
            /\ data.title = Soup
            /\ recipes # <<>> => data.user_id = "u1"
            /\ create_recipe(data, 0)
    \/ \E a, b \in Users, f \in 0..2, nf \in BOOLEAN :
            /\ nf => f = 0
            /\ follow_user(a, b, f, nf)
    \/ unfollow_user("u2", "u1", FALSE)
    \/ \E r \in ExistingIds, body \in RatingBodies, f \in 0..4, nf \in BOOLEAN :
            /\ nf => f = 0
            /\ RatingExists("u2", r) = (body.rating = 3)
            /\ r # RecipeIdPool[1] => (f = 0 /\ ~nf)
            /\ add_rating("u2", r, body, f, nf)
    \/ \E r \in ExistingIds : delete_rating("u2", r, FALSE)
    \/ \E r \in KnownIds, f \in 0..3, nf \in BOOLEAN :
            /\ nf => f = 0
            /\ r # RecipeIdPool[1] => (f = 0 /\ ~nf)
            /\ add_favorite("u2", r, f, nf)
    \/ \E r \in ExistingIds : remove_favorite("u2", r, FALSE)
    \/ \E unread_only \in BOOLEAN :
            notifications # <<>> /\ get_notifications("u1", unread_only, ~unread_only)
    \/ notifications # <<>> /\ get_unread_count("u1", FALSE)
    \/ \E i \in NotificationIds, f \in BOOLEAN :
            /\ f => i = 0
            /\ mark_notification_as_read(i, f)
    \/ \E f \in BOOLEAN : mark_all_as_read("u1", f)
    \/ \E i \in NotificationIds, f \in BOOLEAN :
            /\ f => i = 0
            /\ delete_notification(i, f)
    \/ \E f \in BOOLEAN : clear_all_notifications("u1", f)

SpecNotify == Init /\ [][NextNotify]_vars

\* the three handlers that write a row and may then notify
Notifiers == {"follow_user", "add_rating", "add_favorite"}

\* C11: when the notification insert of a follow_user, add_rating or
\* add_favorite request fails, the request still answers with its success
\* result and the follow, rating or favorite row it wrote is in the store.
C11_NotificationFailureSwallowed ==
    [][(/\ opCount' # opCount
        /\ response'.handler \in Notifiers
        /\ response'.notify # None
        /\ Len(notifications') = Len(notifications))
       => /\ response'.status = 200
          /\ response'.handler = "follow_user" =>
                /\ response'.detail = <<>>
                /\ Len(follows') = Len(follows) + 1
                /\ follows'[Len(follows')] = response'.req
          /\ response'.handler = "add_favorite" =>
                /\ response'.detail = <<>>
                /\ Len(favorites') = Len(favorites) + 1
                /\ favorites'[Len(favorites')] = response'.req
          /\ response'.handler = "add_rating" =>
                /\ response'.body = "added"
                /\ Len(ratings') = Len(ratings) + 1
                /\ ratings'[Len(ratings')].user_id = response'.req.user_id
                /\ ratings'[Len(ratings')].recipe_id = response'.req.recipe_id]_vars

\* a favorite of another user's recipe answered 200 and is stored, while the
\* notification it tried to insert is not in the table
C11_Witness ==
    /\ response.handler = "add_favorite" /\ response.status = 200
    /\ response.notify = Some("u1")
    /\ FavoriteRows(response.req.user_id, response.req.recipe_id) # <<>>
    /\ \A i \in DOMAIN notifications : notifications[i].type # "favorite"

\* C12: the number of notification rows grows only in a step of follow_user,
\* add_rating or add_favorite that also inserted its own follow, rating or
\* favorite row, and by one row; an add_rating request for a pair that
\* already has a rating leaves the notifications as they were.
C12_NotificationsOnlyFromWrites ==
    [][/\ Len(notifications') > Len(notifications) =>
            /\ Len(notifications') = Len(notifications) + 1
            /\ opCount' # opCount
            /\ \/ response'.handler = "follow_user" /\ Len(follows') = Len(follows) + 1
               \/ response'.handler = "add_rating" /\ Len(ratings') = Len(ratings) + 1
               \/ response'.handler = "add_favorite"
                    /\ Len(favorites') = Len(favorites) + 1
       /\ (/\ opCount' # opCount
           /\ response'.handler = "add_rating"
           /\ RatingExists(response'.req.user_id, response'.req.recipe_id))
          => notifications' = notifications]_vars

\* a rating was updated after its insert had notified the owner, and the
\* table still holds that one rating notification; u1 has since read it
C12_Witness ==
    /\ response.handler = "mark_all_as_read" /\ response.status = 200
    /\ \E r \in ExistingIds :
            /\ ratingHist[<<"u2", r>>].n = 2 /\ ratingHist[<<"u2", r>>].ok = 2
            /\ ratingHist[<<"u2", r>>].notifs = 1
    /\ Len(notifications) = 1
    /\ notifications[1].type = "rating" /\ notifications[1].read

\* C13: an add_rating or add_favorite request by user u on a recipe owned by
\* u creates no notification and calls no helper; on a recipe owned by another
\* user, the notification it creates is addressed to that owner, not to u.
C13_OwnerNotifiedNotSelf ==
    [][(/\ opCount' # opCount
        /\ response'.handler \in {"add_rating", "add_favorite"}
        /\ SingleOk(RecipeRows(response'.req.recipe_id)))
       => LET owner == RecipeRows(response'.req.recipe_id)[1].user_id
              u == response'.req.user_id
          IN  /\ owner = u =>
                    (notifications' = notifications /\ response'.notify = None)
              /\ (owner \in Users \ {u} /\ Len(notifications') > Len(notifications)) =>
                    /\ notifications'[Len(notifications')].user_id = owner
                    /\ notifications'[Len(notifications')].user_id # u
                    /\ response'.notify = Some(owner)]_vars

\* u2 has rated the recipe u2 owns: the rating is stored, the request
\* answered 200, and no rating notification exists
C13_Witness ==
    /\ response.handler = "add_rating" /\ response.status = 200
    /\ response.body = "added"
    /\ SingleOk(RecipeRows(response.req.recipe_id))
    /\ RecipeRows(response.req.recipe_id)[1].user_id = response.req.user_id
    /\ RatingRows(response.req.user_id, response.req.recipe_id) # <<>>
    /\ \A i \in DOMAIN notifications : notifications[i].type # "rating"

\* C17: a follow_user, add_favorite or add_rating request that answers 400 or
\* 500 has left the follows, favorites and ratings tables as they were.
C17_ErrorLeavesTables ==
    [][(/\ opCount' # opCount
        /\ response'.handler \in Notifiers
        /\ response'.status \in {400, 500})
       => (follows' = follows /\ favorites' = favorites /\ ratings' = ratings)]_vars

\* C18: the recipient a follow_user, add_rating or add_favorite request hands
\* to its notification helper is a user id, never the null owner of an
\* anonymous recipe.
C18_RecipientIsUser ==
    (response.handler \in Notifiers /\ response.notify # None)
        => response.notify[1] \in Users

(* ----------- specification: two add_rating requests at a time ---------- *)
NextRatingRace ==
    \/ \E data \in PlainRecipeInputs :
            /\ Len(recipes) < MaxEdited
            /\ data.title = Soup
            /\ create_recipe(data, 0)
    \/ \E p \in Procs, r \in ExistingIds, body \in RatingBodies :
            /\ body.rating = 2 + p
            /\ add_rating_begin(p, "u2", r, body)
    \/ \E p \in Procs : add_rating_select(p)
    \/ \E p \in Procs, unique \in BOOLEAN : add_rating_write(p, unique)
    \/ \E p \in Procs : add_rating_recipe(p)
    \/ \E p \in Procs : add_rating_rater(p)
    \/ \E p \in Procs, nf \in BOOLEAN : add_rating_notify(p, nf)

SpecRatingRace == Init /\ [][NextRatingRace]_vars

\* C15: when two add_rating requests for the same (user, recipe), which had
\* no rating when each arrived, were handled at the same time and both have
\* finished: both answered 200, the pair has exactly one rating row, and
\* exactly one of the two took the insert branch.
C15_ConcurrentUpsert ==
    (/\ \A p \in Procs : inflight[p].pc = "done" /\ inflight[p].handler = "add_rating"
                            /\ inflight[p].fresh /\ inflight[p].overlapped
     /\ inflight[1].user_id = inflight[2].user_id
     /\ inflight[1].recipe_id = inflight[2].recipe_id
     /\ ProfileRows(inflight[1].user_id) # <<>>)
    => /\ \A p \in Procs : inflight[p].status = 200
       /\ Len(RatingRows(inflight[1].user_id, inflight[1].recipe_id)) = 1
       /\ Cardinality({p \in Procs : inflight[p].branch = "insert"}) = 1

(* --------- specification: two update_recipe requests at a time --------- *)
\* the first process submits ingredients of the menu that starts with salt,
\* the second of the menu that starts with oil
NextUpdateRace ==
    \/ \E data \in FullRecipeInputs :
            Len(recipes) < MaxEdited /\ create_recipe(data, 0)
    \/ \E p \in Procs, r \in ExistingIds, data \in FullRecipeInputs :
            /\ data.ingredients.items # <<>>
            /\ (p = 1) = (data.ingredients.items[1] = Salt)
            /\ update_recipe_begin(p, r, data)
    \/ \E p \in Procs : update_recipe_core(p)
    \/ \E p \in Procs : update_recipe_delete_ingredients(p)
    \/ \E p \in Procs, unique \in BOOLEAN : update_recipe_insert_ingredients(p, unique)
    \/ \E p \in Procs : update_recipe_delete_steps(p)
    \/ \E p \in Procs, unique \in BOOLEAN : update_recipe_insert_steps(p, unique)

SpecUpdateRace == Init /\ [][NextUpdateRace]_vars

\* C16: when update_recipe requests on the same recipe were handled at the
\* same time and all have finished, the recipe's ingredient rows are numbered
\* exactly 1..N and are the whole list of one of the requests, and its step
\* rows are numbered exactly 1..M and are the whole list of one of them.
C16_ConcurrentReplace ==
    (/\ \A p \in Procs : inflight[p].pc = "done" /\ inflight[p].handler = "update_recipe"
                            /\ inflight[p].overlapped
     /\ inflight[1].recipe_id = inflight[2].recipe_id)
    => LET r == inflight[1].recipe_id
       IN  /\ \A ings \in OrderBy(IngredientRows(r), "order_index", FALSE) :
                \E p \in Procs :
                    IsSubmittedIngredients(ings, r, inflight[p].data.ingredients.items)
           /\ \A sts \in OrderBy(StepRows(r), "step_number", FALSE) :
                \E p \in Procs : IsSubmittedSteps(sts, r, inflight[p].data.steps.items)

====
